---- MODULE Spec2Model ----
(***************************************************************************)
(* Streaming audio analysis backend: the WebSocket session loop of         *)
(* backend/main.py (websocket_audio) and the analyzer it drives            *)
(* (backend/audio_analyzer.py, class AudioAnalyzer and get_analyzer).      *)
(*                                                                         *)
(* Units.  The program computes in floating point; the model keeps every   *)
(* quantity as an integer number of a fixed unit:                          *)
(*   samples      int16 values as received (audio_float = value / 32768)   *)
(*   RMS          1 / RmsUnit, RmsUnit = 100 * 32768, so that the RMS of   *)
(*                a frame of constant int16 value a is exactly 100 * |a|   *)
(*                and 0.01, 0.03, 0.04 are whole numbers of units          *)
(*   intensity    1 / 100 dB                                               *)
(*   F1 F2 F3 f0  whole Hz; an analysis tick whose arithmetic would leave  *)
(*                the whole numbers is not explored (ExactTick)            *)
(* A status or result message carries the rounded values the handler       *)
(* sends: RMS in 1/10000, intensity and frequencies in 1/10.               *)
(*                                                                         *)
(* The sample buffer is kept run-length encoded: a sequence of runs        *)
(* [v |-> int16 value, n |-> number of consecutive samples of that value]. *)
(* The acoustic feature extractor (parselmouth) and the result of the      *)
(* high-pass filter on a frame that is not all zero are inputs: each       *)
(* action draws them from small sets.                                      *)
(***************************************************************************)
EXTENDS Integers, Sequences, FiniteSets, TLC

VARIABLES
    analyzer,                     \* audio_analyzer._analyzer (process-wide)
    st,                           \* per connection: "idle", "open", "closed"
    audio_buffer,                 \* per connection: local audio_buffer
    samples_since_last_process,   \* per connection: local counter
    calibrating,                  \* per connection: local flag (phase)
    calibration_started,          \* per connection: local flag
    out,                          \* per connection: what the last handled
                                  \* event sent on the socket, in order
    statusCount,                  \* per connection: statuses sent since the
                                  \* last entry into Calibrating (observer)
    analysed,                     \* per connection: the frame the last handled
                                  \* event handed to analyze, or <<>> (observer)
    lastTick,                     \* per connection: the call of analyze made by
                                  \* the last event handled, if it was one of this
                                  \* connection and made the call, or NoTick
                                  \* (observer)
    ticks,                        \* calls of analyze since the analyzer was
                                  \* last reset (observer)
    env                           \* the clients: which connect, what they send

vars == <<analyzer, st, audio_buffer, samples_since_last_process, calibrating,
          calibration_started, out, analysed, lastTick, statusCount, ticks, env>>

----------------------------------------------------------------------------
(* Program constants *)

SAMPLE_RATE == 16000
MIN_CHUNK_SIZE == 1024
PROCESS_EVERY == 512
MinFrameLen == 256
CalibrationChunk == 512
Int16Scale == 32768

RmsUnit == 100 * Int16Scale
DbUnit == 10 * 10

InitialNoiseFloorRms == RmsUnit \div 100
InitialNoiseFloorIntensity == 30 * DbUnit
MinRmsThreshold == (3 * RmsUnit) \div 100
UncalibratedRmsThreshold == (4 * RmsUnit) \div 100
MinIntensityThreshold == 40 * DbUnit
IntensityThresholdOffset == 10 * DbUnit
UncalibratedIntensityThreshold == 45 * DbUnit
IntensityFloor == 20 * DbUnit
IntensityMargin == 5 * DbUnit

----------------------------------------------------------------------------
(* Bounds of the model *)

Conns == {1, 2}
MaxPending == 4096
MaxTicks == 2
MaxTicksMulti == 1
MaxRuns == 2

----------------------------------------------------------------------------
(* Arithmetic helpers *)

Max(a, b) == IF a >= b THEN a ELSE b
Min(a, b) == IF a <= b THEN a ELSE b
Abs(a) == IF a < 0 THEN -a ELSE a

\* Python's round(x, k) on the quotient num / den, in units of 1 / scale:
\* the nearest multiple, a tie going to the even one.
RoundQ(num, den, scale) ==
    LET q == (num * scale) \div den
        r == (num * scale) % den
    IN  IF 2 * r > den THEN q + 1
        ELSE IF 2 * r < den THEN q
        ELSE IF q % 2 = 0 THEN q ELSE q + 1

\* sorted(s)
RECURSIVE Insert(_, _)
Insert(x, s) ==
    IF s = <<>> THEN <<x>>
    ELSE IF x <= Head(s) THEN <<x>> \o s
    ELSE <<Head(s)>> \o Insert(x, Tail(s))

RECURSIVE Sorted(_)
Sorted(s) ==
    IF s = <<>> THEN <<>>
    ELSE CHOOSE r \in {Insert(Head(s), t) : t \in {Sorted(Tail(s))}} : TRUE

\* s[-k:] for k > 0
LastK(s, k) == IF Len(s) <= k THEN s ELSE SubSeq(s, Len(s) - k + 1, Len(s))

----------------------------------------------------------------------------
(* Sample arrays (numpy), run-length encoded *)

RECURSIVE ArrayLen(_)
ArrayLen(a) == IF a = <<>> THEN 0 ELSE Head(a).n + ArrayLen(Tail(a))

\* np.frombuffer(bytes, int16).astype(float64) / 32768 for a payload of
\* nbytes bytes that repeats the sample value amp
FromBuffer(nbytes, amp) ==
    IF nbytes \div 2 = 0 THEN <<>> ELSE <<[v |-> amp, n |-> nbytes \div 2]>>

\* np.concatenate([a, b])
Concatenate(a, b) ==
    IF a = <<>> THEN b
    ELSE IF b = <<>> THEN a
    ELSE IF a[Len(a)].v = Head(b).v
         THEN SubSeq(a, 1, Len(a) - 1)
              \o <<[v |-> Head(b).v, n |-> a[Len(a)].n + Head(b).n]>>
              \o Tail(b)
         ELSE a \o b

\* a[-k:] for k > 0: the last k samples (all of them when there are fewer)
RECURSIVE Tail_k(_, _)
Tail_k(a, k) ==
    IF a = <<>> \/ k <= 0 THEN <<>>
    ELSE LET last == a[Len(a)]
             rest == SubSeq(a, 1, Len(a) - 1)
         IN  IF last.n >= k THEN <<[v |-> last.v, n |-> k]>>
             ELSE Tail_k(rest, k - last.n) \o <<last>>

\* the sample i places from the end (i = 1 is the newest)
RECURSIVE FromEnd(_, _)
FromEnd(a, i) ==
    LET last == a[Len(a)]
    IN  IF i <= last.n THEN last.v ELSE FromEnd(SubSeq(a, 1, Len(a) - 1), i - last.n)

AllZero(a) == \A i \in 1..Len(a) : a[i].v = 0

\* np.sqrt(np.mean(a ** 2)) of a frame of one constant value, in RMS units
RmsConstant(a) == IF a = <<>> THEN 0 ELSE 100 * Abs(Head(a).v)

----------------------------------------------------------------------------
(* audio_analyzer.py *)

None == [none |-> TRUE]

\* IPA_VOWELS, in declaration order; an entry is named by its 'name' string
IPA_VOWELS == <<
    [vowel |-> "close front", f1 |-> 280, f2 |-> 2300],
    [vowel |-> "near-close front", f1 |-> 400, f2 |-> 2000],
    [vowel |-> "close-mid front", f1 |-> 400, f2 |-> 2100],
    [vowel |-> "open-mid front", f1 |-> 550, f2 |-> 1900],
    [vowel |-> "near-open front", f1 |-> 700, f2 |-> 1700],
    [vowel |-> "open front", f1 |-> 800, f2 |-> 1500],
    [vowel |-> "close central", f1 |-> 300, f2 |-> 1600],
    [vowel |-> "mid central", f1 |-> 500, f2 |-> 1500],
    [vowel |-> "near-open central", f1 |-> 700, f2 |-> 1400],
    [vowel |-> "close back", f1 |-> 300, f2 |-> 900],
    [vowel |-> "near-close back", f1 |-> 400, f2 |-> 1000],
    [vowel |-> "close-mid back", f1 |-> 450, f2 |-> 900],
    [vowel |-> "open-mid back", f1 |-> 600, f2 |-> 1000],
    [vowel |-> "open back", f1 |-> 750, f2 |-> 1100] >>

\* AudioAnalyzer.__init__
AudioAnalyzer(sample_rate) ==
    [ sample_rate           |-> sample_rate,
      noise_floor_rms       |-> InitialNoiseFloorRms,
      noise_floor_intensity |-> InitialNoiseFloorIntensity,
      is_calibrated         |-> FALSE,
      calibration_samples   |-> <<>>,
      last_f1               |-> 0,
      last_f2               |-> 0,
      last_f3               |-> 0,
      last_pitch            |-> 0 ]

\* reset as it would be without line 312: the calibration history survives
resetKeepsHistory(an) ==
    [ an EXCEPT !.last_f1 = 0, !.last_f2 = 0, !.last_f3 = 0, !.last_pitch = 0,
                !.is_calibrated = FALSE,
                !.noise_floor_rms = InitialNoiseFloorRms,
                !.noise_floor_intensity = InitialNoiseFloorIntensity ]

\* AudioAnalyzer.reset
reset(an) ==
    [ an EXCEPT !.last_f1 = 0, !.last_f2 = 0, !.last_f3 = 0, !.last_pitch = 0,
                !.is_calibrated = FALSE,
                !.calibration_samples = <<>>,
                !.noise_floor_rms = InitialNoiseFloorRms,
                !.noise_floor_intensity = InitialNoiseFloorIntensity ]

\* get_analyzer: the process-wide instance, made on first use
get_analyzer(cur, sample_rate) ==
    IF cur = None \/ cur.sample_rate # sample_rate
    THEN AudioAnalyzer(sample_rate)
    ELSE cur

\* calibrate_noise_floor as it would be without the floor of 20 dB
calibrate_noise_floor_unfloored(an, audio_data, x) ==
    IF ArrayLen(audio_data) < MinFrameLen
    THEN [ret |-> FALSE, an |-> an]
    ELSE
      LET rms == RmsConstant(audio_data)
          appended == Append(an.calibration_samples, rms)
          max_samples == an.sample_rate \div CalibrationChunk
          samples == IF Len(appended) > max_samples
                     THEN LastK(appended, max_samples)
                     ELSE appended
      IN  IF Len(samples) >= max_samples \div 2
          THEN
            LET sorted_samples == Sorted(samples)
                percentile_idx == (Len(sorted_samples) * 9) \div 10
            IN  [ret |-> TRUE,
                 an |-> [an EXCEPT
                    !.calibration_samples = samples,
                    !.noise_floor_rms = sorted_samples[percentile_idx + 1],
                    !.noise_floor_intensity =
                        IF x.sound_ok
                        THEN x.intensity - IntensityMargin
                        ELSE @,
                    !.is_calibrated = TRUE]]
          ELSE [ret |-> FALSE, an |-> [an EXCEPT !.calibration_samples = samples]]

\* calibrate_noise_floor as it would be with the capacity rounded up
calibrate_noise_floor_ceil(an, audio_data, x) ==
    IF ArrayLen(audio_data) < MinFrameLen
    THEN [ret |-> FALSE, an |-> an]
    ELSE
      LET rms == RmsConstant(audio_data)
          appended == Append(an.calibration_samples, rms)
          max_samples == (an.sample_rate + CalibrationChunk - 1) \div CalibrationChunk
          samples == IF Len(appended) > max_samples
                     THEN LastK(appended, max_samples)
                     ELSE appended
      IN  IF Len(samples) >= max_samples \div 2
          THEN
            LET sorted_samples == Sorted(samples)
                percentile_idx == (Len(sorted_samples) * 9) \div 10
            IN  [ret |-> TRUE,
                 an |-> [an EXCEPT
                    !.calibration_samples = samples,
                    !.noise_floor_rms = sorted_samples[percentile_idx + 1],
                    !.noise_floor_intensity =
                        IF x.sound_ok
                        THEN Max(IntensityFloor, x.intensity - IntensityMargin)
                        ELSE @,
                    !.is_calibrated = TRUE]]
          ELSE [ret |-> FALSE, an |-> [an EXCEPT !.calibration_samples = samples]]

\* AudioAnalyzer.calibrate_noise_floor.  x is what the extractor does on
\* this frame: x.sound_ok = FALSE when parselmouth.Sound raises, x.intensity
\* the value of _get_intensity (0 when it fails inside).
calibrate_noise_floor(an, audio_data, x) ==
    IF ArrayLen(audio_data) < MinFrameLen
    THEN [ret |-> FALSE, an |-> an]
    ELSE
      LET rms == RmsConstant(audio_data)
          appended == Append(an.calibration_samples, rms)
          max_samples == an.sample_rate \div CalibrationChunk
          samples == IF Len(appended) > max_samples
                     THEN LastK(appended, max_samples)
                     ELSE appended
      IN  IF Len(samples) >= max_samples \div 2
          THEN
            LET sorted_samples == Sorted(samples)
                percentile_idx == (Len(sorted_samples) * 9) \div 10
            IN  [ret |-> TRUE,
                 an |-> [an EXCEPT
                    !.calibration_samples = samples,
                    !.noise_floor_rms = sorted_samples[percentile_idx + 1],
                    !.noise_floor_intensity =
                        IF x.sound_ok
                        THEN Max(IntensityFloor, x.intensity - IntensityMargin)
                        ELSE @,
                    !.is_calibrated = TRUE]]
          ELSE [ret |-> FALSE, an |-> [an EXCEPT !.calibration_samples = samples]]

\* AudioAnalyzer._silent_result
silent_result ==
    [f1 |-> 0, f2 |-> 0, f3 |-> 0, pitch |-> 0, intensity |-> 0,
     is_voiced |-> FALSE, detected_vowel |-> "None", distance2 |-> 0]

\* AudioAnalyzer._smooth, smoothing = 0.3
smooth(new_val, old_val) ==
    IF new_val = 0 THEN old_val \div 2
    ELSE (old_val * 3 + new_val * 7) \div 10

\* the decay of an unvoiced tick: value * 0.8
decay(val) == (val * 8) \div 10

\* 100 * distance ** 2 of _detect_vowel, for table entry e
Distance2(f1, f2, e) ==
    144 * (f1 - e.f1) * (f1 - e.f1) + 64 * (f2 - e.f2) * (f2 - e.f2)

\* _detect_vowel as it would be with <= for < in the loop: of the entries
\* at the least distance the last is kept
detect_vowel_last(f1, f2) ==
    IF f1 = 0 \/ f2 = 0
    THEN [vowel |-> "None", distance2 |-> 0]
    ELSE
      LET d == [i \in 1..Len(IPA_VOWELS) |-> Distance2(f1, f2, IPA_VOWELS[i])]
          best == CHOOSE i \in 1..Len(IPA_VOWELS) :
                    /\ \A j \in 1..Len(IPA_VOWELS) : d[i] <= d[j]
                    /\ \A j \in (i + 1)..Len(IPA_VOWELS) : d[j] > d[i]
      IN  [vowel |-> IPA_VOWELS[best].vowel, distance2 |-> d[best]]

\* AudioAnalyzer._detect_vowel: the first entry of the table at the least
\* distance.  The confidence max(0, 1 - distance / 400) is carried as the
\* squared distance it is computed from.
detect_vowel(f1, f2) ==
    IF f1 = 0 \/ f2 = 0
    THEN [vowel |-> "None", distance2 |-> 0]
    ELSE
      LET d == [i \in 1..Len(IPA_VOWELS) |-> Distance2(f1, f2, IPA_VOWELS[i])]
          best == CHOOSE i \in 1..Len(IPA_VOWELS) :
                    /\ \A j \in 1..Len(IPA_VOWELS) : d[i] <= d[j]
                    /\ \A j \in 1..(i - 1) : d[j] > d[i]
      IN  [vowel |-> IPA_VOWELS[best].vowel, distance2 |-> d[best]]

\* analyze as it would be with >= for > in the two gate conditions
analyzeLaxGate(an, audio_data, rms, x) ==
    IF ArrayLen(audio_data) < MinFrameLen
    THEN [result |-> silent_result, an |-> an]
    ELSE
      LET rms_threshold ==
              IF an.is_calibrated
              THEN Max(MinRmsThreshold, (an.noise_floor_rms * 25) \div 10)
              ELSE UncalibratedRmsThreshold
          intensity_threshold ==
              IF an.is_calibrated
              THEN Max(MinIntensityThreshold,
                       an.noise_floor_intensity + IntensityThresholdOffset)
              ELSE UncalibratedIntensityThreshold
          is_voiced == x.intensity >= intensity_threshold /\ rms >= rms_threshold
      IN  IF rms < rms_threshold \/ ~x.sound_ok
          THEN [result |-> silent_result, an |-> an]
          ELSE IF ~is_voiced
          THEN [result |-> [f1 |-> decay(an.last_f1), f2 |-> decay(an.last_f2),
                            f3 |-> 0, pitch |-> 0, intensity |-> x.intensity,
                            is_voiced |-> FALSE, detected_vowel |-> "None",
                            distance2 |-> 0],
                an |-> [an EXCEPT !.last_f1 = decay(@), !.last_f2 = decay(@)]]
          ELSE
            LET sm == an.last_f1 > 0
                f1 == IF sm THEN smooth(x.f1, an.last_f1) ELSE x.f1
                f2 == IF sm THEN smooth(x.f2, an.last_f2) ELSE x.f2
                f3 == IF sm THEN smooth(x.f3, an.last_f3) ELSE x.f3
                pitch == IF sm THEN smooth(x.pitch, an.last_pitch) ELSE x.pitch
                dv == detect_vowel(f1, f2)
            IN  [result |-> [f1 |-> f1, f2 |-> f2, f3 |-> f3, pitch |-> pitch,
                             intensity |-> x.intensity, is_voiced |-> TRUE,
                             detected_vowel |-> dv.vowel,
                             distance2 |-> dv.distance2],
                 an |-> [an EXCEPT !.last_f1 = f1, !.last_f2 = f2,
                                   !.last_f3 = f3, !.last_pitch = pitch]]

\* AudioAnalyzer.analyze on a frame.  rms is the RMS of the frame after
\* _high_pass_filter; x is what the extractor does on it: x.sound_ok = FALSE
\* when parselmouth.Sound raises, x.intensity, x.f1, x.f2, x.f3, x.pitch the
\* values of _get_intensity, _get_formants and _get_pitch (0 on failure).
analyze(an, audio_data, rms, x) ==
    IF ArrayLen(audio_data) < MinFrameLen
    THEN [result |-> silent_result, an |-> an]
    ELSE
      LET rms_threshold ==
              IF an.is_calibrated
              THEN Max(MinRmsThreshold, (an.noise_floor_rms * 25) \div 10)
              ELSE UncalibratedRmsThreshold
          intensity_threshold ==
              IF an.is_calibrated
              THEN Max(MinIntensityThreshold,
                       an.noise_floor_intensity + IntensityThresholdOffset)
              ELSE UncalibratedIntensityThreshold
          is_voiced == x.intensity > intensity_threshold /\ rms > rms_threshold
      IN  IF rms < rms_threshold \/ ~x.sound_ok
          THEN [result |-> silent_result, an |-> an]
          ELSE IF ~is_voiced
          THEN [result |-> [f1 |-> decay(an.last_f1), f2 |-> decay(an.last_f2),
                            f3 |-> 0, pitch |-> 0, intensity |-> x.intensity,
                            is_voiced |-> FALSE, detected_vowel |-> "None",
                            distance2 |-> 0],
                an |-> [an EXCEPT !.last_f1 = decay(@), !.last_f2 = decay(@)]]
          ELSE
            LET sm == an.last_f1 > 0
                f1 == IF sm THEN smooth(x.f1, an.last_f1) ELSE x.f1
                f2 == IF sm THEN smooth(x.f2, an.last_f2) ELSE x.f2
                f3 == IF sm THEN smooth(x.f3, an.last_f3) ELSE x.f3
                pitch == IF sm THEN smooth(x.pitch, an.last_pitch) ELSE x.pitch
                dv == detect_vowel(f1, f2)
            IN  [result |-> [f1 |-> f1, f2 |-> f2, f3 |-> f3, pitch |-> pitch,
                             intensity |-> x.intensity, is_voiced |-> TRUE,
                             detected_vowel |-> dv.vowel,
                             distance2 |-> dv.distance2],
                 an |-> [an EXCEPT !.last_f1 = f1, !.last_f2 = f2,
                                   !.last_f3 = f3, !.last_pitch = pitch]]

\* The divisions analyze made on this tick left no remainder.
SmoothExact(new_val, old_val) ==
    IF new_val = 0 THEN old_val % 2 = 0 ELSE (old_val * 3 + new_val * 7) % 10 = 0

ExactTick(an, x, r) ==
    IF r.result.is_voiced
    THEN an.last_f1 > 0 =>
            /\ SmoothExact(x.f1, an.last_f1)
            /\ SmoothExact(x.f2, an.last_f2)
            /\ SmoothExact(x.f3, an.last_f3)
            /\ SmoothExact(x.pitch, an.last_pitch)
    ELSE \/ r.an = an
         \/ /\ (an.last_f1 * 8) % 10 = 0
            /\ (an.last_f2 * 8) % 10 = 0

----------------------------------------------------------------------------
(* main.py: messages sent on the socket *)

CalibratingMsg ==
    [type |-> "calibrating",
     message |-> "Calibrating to ambient noise... Please stay quiet."]

RecalibratingMsg ==
    [type |-> "calibrating",
     message |-> "Recalibrating to ambient noise... Please stay quiet."]

\* the status as it would be if it reported the values the analyzer starts with
CalibratedMsgStale(an) ==
    [type |-> "calibrated",
     rms |-> RoundQ(InitialNoiseFloorRms, RmsUnit, 10000),
     intensity |-> RoundQ(InitialNoiseFloorIntensity, DbUnit, 10),
     message |-> "Calibration complete. Ready for speech analysis."]

\* noiseFloor.rms = round(rms, 4), noiseFloor.intensity = round(intensity, 1)
CalibratedMsg(an) ==
    [type |-> "calibrated",
     rms |-> RoundQ(an.noise_floor_rms, RmsUnit, 10000),
     intensity |-> RoundQ(an.noise_floor_intensity, DbUnit, 10),
     message |-> "Calibration complete. Ready for speech analysis."]

PongMsg == [type |-> "pong"]
ResetAckMsg == [type |-> "reset_ack"]

\* round(max(0, 1 - distance / 400), 3) in 1/1000, from 100 * distance ** 2:
\* distance / 0.4 is the square root of e = distance2 / 16
Confidence1000(distance2) ==
    LET e == distance2 \div 16
    IN  IF 4 * e >= 2001 * 2001 THEN 0
        ELSE 1000 - (CHOOSE r \in 0..1000 :
                        /\ 4 * e < (2 * r + 1) * (2 * r + 1)
                        /\ r > 0 => (2 * r - 1) * (2 * r - 1) < 4 * e)

\* result_to_dict: frequencies and intensity in 1/10, confidence in 1/1000,
\* position.x in 1/1600 and position.y in 1/600
result_to_dict(result) ==
    [type |-> "result",
     f1 |-> RoundQ(result.f1, 1, 10),
     f2 |-> RoundQ(result.f2, 1, 10),
     f3 |-> RoundQ(result.f3, 1, 10),
     pitch |-> RoundQ(result.pitch, 1, 10),
     intensity |-> RoundQ(result.intensity, DbUnit, 10),
     isVoiced |-> result.is_voiced,
     detectedVowel |-> result.detected_vowel,
     confidence |-> IF result.detected_vowel = "None" THEN 0
                    ELSE Confidence1000(result.distance2),
     x |-> IF result.f2 > 0
           THEN Min(1600, Max(0, 1600 - (result.f2 - 800)))
           ELSE 800,
     y |-> IF result.f1 > 0
           THEN Min(600, Max(0, result.f1 - 250))
           ELSE 300]

----------------------------------------------------------------------------
(* Inputs *)

\* the text frames a client sends
PingText == "{\"type\": \"ping\"}"
ResetText == "{\"type\": \"reset\"}"
RecalibrateText == "{\"type\": \"recalibrate\"}"
UnknownTypeText == "{\"type\": \"hello\"}"
NoTypeText == "{}"
NotJsonText == "reset"
NotObjectText == "[1]"

Texts == {PingText, ResetText, RecalibrateText, UnknownTypeText, NoTypeText,
          NotJsonText, NotObjectText}

\* the dispatch as it would be with the ping branch testing for "reset"
MsgTypePingAsReset(text) ==
    CASE text = PingText -> "reset"
      [] text = ResetText -> "reset"
      [] text = RecalibrateText -> "recalibrate"
      [] text = UnknownTypeText -> "hello"
      [] text = NoTypeText -> "None"
      [] OTHER -> "raise"

\* json.loads(text) followed by msg.get("type"): "raise" when json.loads
\* raises (not JSON) or the value has no get (not an object), else the type
\* ("None" when the object has none)
MsgType(text) ==
    CASE text = PingText -> "ping"
      [] text = ResetText -> "reset"
      [] text = RecalibrateText -> "recalibrate"
      [] text = UnknownTypeText -> "hello"
      [] text = NoTypeText -> "None"
      [] OTHER -> "raise"

\* what the extractor may do on a calibration frame
NoExtract == [sound_ok |-> FALSE, intensity |-> 0, f1 |-> 0, f2 |-> 0, f3 |-> 0, pitch |-> 0]

CalibrationExtracts ==
    { NoExtract,
      [NoExtract EXCEPT !.sound_ok = TRUE, !.intensity = 0],
      [NoExtract EXCEPT !.sound_ok = TRUE, !.intensity = 4238] }

\* what the extractor may do on an analysed frame
AnalysisExtracts ==
    { NoExtract,
      [sound_ok |-> TRUE, intensity |-> 0, f1 |-> 0, f2 |-> 0, f3 |-> 0, pitch |-> 0],
      [sound_ok |-> TRUE, intensity |-> 3512, f1 |-> 500, f2 |-> 1500, f3 |-> 2500, pitch |-> 200],
      [sound_ok |-> TRUE, intensity |-> 4000, f1 |-> 500, f2 |-> 1500, f3 |-> 2500, pitch |-> 200],
      [sound_ok |-> TRUE, intensity |-> 6000, f1 |-> 500, f2 |-> 1500, f3 |-> 2500, pitch |-> 200],
      [sound_ok |-> TRUE, intensity |-> 6000, f1 |-> 0, f2 |-> 1500, f3 |-> 0, pitch |-> 200],
      [sound_ok |-> TRUE, intensity |-> 6000, f1 |-> 500, f2 |-> 0, f3 |-> 2500, pitch |-> 0] }

\* the extractor failing, or reading a loud vowel
FewExtracts ==
    { NoExtract,
      [sound_ok |-> TRUE, intensity |-> 6000, f1 |-> 500, f2 |-> 1500, f3 |-> 2500, pitch |-> 200] }

\* the filter as it would be if its output on a frame of zeros were not zero
FilteredRmsOffset(audio_data) == {10000, MinRmsThreshold, 200000}

\* the RMS of a frame after _high_pass_filter: 0 when the frame is all zero
\* (the filter is linear), else one of these
FilteredRms(audio_data) ==
    IF AllZero(audio_data) THEN {0}
    ELSE {10000, MinRmsThreshold, 200000}

----------------------------------------------------------------------------
(* main.py: websocket_audio *)

NoCount == [calibrating |-> 0, calibrated |-> 0]

\* no call of analyze
NoTick == [none |-> TRUE]

\* the handler has returned (disconnect, or an exception caught by the
\* try around the loop): its locals are gone
Closed(c) ==
    /\ st' = [st EXCEPT ![c] = "closed"]
    /\ audio_buffer' = [audio_buffer EXCEPT ![c] = <<>>]
    /\ samples_since_last_process' = [samples_since_last_process EXCEPT ![c] = 0]
    /\ calibrating' = [calibrating EXCEPT ![c] = TRUE]
    /\ calibration_started' = [calibration_started EXCEPT ![c] = FALSE]
    /\ out' = [out EXCEPT ![c] = <<>>]
    /\ analysed' = [analysed EXCEPT ![c] = <<>>]
    /\ lastTick' = [d \in Conns |-> NoTick]
    /\ UNCHANGED <<analyzer, statusCount, ticks, env>>

\* a[:k]: the first k samples
RECURSIVE Head_k(_, _)
Head_k(a, k) ==
    IF a = <<>> \/ k <= 0 THEN <<>>
    ELSE IF Head(a).n >= k THEN <<[v |-> Head(a).v, n |-> k]>>
    ELSE <<Head(a)>> \o Head_k(Tail(a), k - Head(a).n)

\* the trim as it would be with audio_buffer[:max_buffer]: the oldest are kept
TrimmedOldest(a) ==
    LET max_buffer == (SAMPLE_RATE * 2) \div 10
    IN  IF ArrayLen(a) > max_buffer THEN Head_k(a, max_buffer) ELSE a

\* audio_buffer[-max_buffer:] when longer than max_buffer = int(SAMPLE_RATE * 0.2)
Trimmed(a) ==
    LET max_buffer == (SAMPLE_RATE * 2) \div 10
    IN  IF ArrayLen(a) > max_buffer THEN Tail_k(a, max_buffer) ELSE a

\* the condition as it would be without the test of the flag calibrating
DueWhileCalibrating(still_calibrating, since, buffer) ==
    /\ since >= PROCESS_EVERY
    /\ ArrayLen(buffer) >= MIN_CHUNK_SIZE

\* the condition as it would be without the test of the buffer length
DueWithoutWindow(still_calibrating, since, buffer) ==
    /\ ~still_calibrating
    /\ since >= PROCESS_EVERY

\* the condition of an analysis tick, with the flag calibrating, the counter
\* and the buffer as they are at that line
Due(still_calibrating, since, buffer) ==
    /\ ~still_calibrating
    /\ since >= PROCESS_EVERY
    /\ ArrayLen(buffer) >= MIN_CHUNK_SIZE

\* websocket.accept() up to the loop
Connect(c) ==
    /\ c \in env.conns
    /\ st[c] = "idle"
    /\ analyzer' = reset(get_analyzer(analyzer, SAMPLE_RATE))
    /\ ticks' = 0
    /\ st' = [st EXCEPT ![c] = "open"]
    /\ audio_buffer' = [audio_buffer EXCEPT ![c] = <<>>]
    /\ samples_since_last_process' = [samples_since_last_process EXCEPT ![c] = 0]
    /\ calibrating' = [calibrating EXCEPT ![c] = TRUE]
    /\ calibration_started' = [calibration_started EXCEPT ![c] = FALSE]
    /\ out' = [out EXCEPT ![c] = <<>>]
    /\ analysed' = [analysed EXCEPT ![c] = <<>>]
    /\ lastTick' = [d \in Conns |-> NoTick]
    /\ statusCount' = [statusCount EXCEPT ![c] = NoCount]
    /\ UNCHANGED env

\* receive() raises WebSocketDisconnect
Disconnect(c) ==
    /\ st[c] = "open"
    /\ Closed(c)

\* the branch "bytes" in data, for a payload of nbytes bytes of value amp
ReceiveBytes(c, nbytes, amp) ==
    /\ st[c] = "open"
    /\ [nbytes |-> nbytes, amp |-> amp] \in env.frames[c]
    /\ IF nbytes % 2 # 0
       THEN Closed(c)
       ELSE
         \E audio_float \in {FromBuffer(nbytes, amp)} :
         \E since \in {IF env.saturate
                        THEN Min(MaxPending,
                                 samples_since_last_process[c] + ArrayLen(audio_float))
                        ELSE samples_since_last_process[c] + ArrayLen(audio_float)} :
         \E buffer \in {Trimmed(Concatenate(audio_buffer[c], audio_float))} :
           /\ since <= MaxPending
           /\ Len(buffer) <= MaxRuns
           /\ audio_buffer' = [audio_buffer EXCEPT ![c] = buffer]
           /\ calibration_started' =
                [calibration_started EXCEPT ![c] = IF calibrating[c] THEN TRUE ELSE @]
           /\ UNCHANGED <<st, env>>
           /\ \E feed \in {calibrating[c] /\ ArrayLen(audio_float) >= MinFrameLen} :
              \E xc \in (IF feed THEN CalibrationExtracts ELSE {NoExtract}) :
              \E cal \in {IF feed
                          THEN calibrate_noise_floor(analyzer, audio_float, xc)
                          ELSE [ret |-> FALSE, an |-> analyzer]} :
              \E due \in {Due(calibrating[c] /\ ~cal.ret, since, buffer)} :
                LET announce == calibrating[c] /\ ~calibration_started[c]
                IN  /\ due => ticks < env.max_ticks
                    /\ ticks' = IF due THEN ticks + 1 ELSE ticks
                    /\ samples_since_last_process' =
                         [samples_since_last_process EXCEPT ![c] =
                             IF due THEN 0 ELSE since]
                    /\ calibrating' = [calibrating EXCEPT ![c] = @ /\ ~cal.ret]
                    /\ statusCount' = [statusCount EXCEPT ![c] =
                         [calibrating |-> @.calibrating + (IF announce THEN 1 ELSE 0),
                          calibrated |-> @.calibrated + (IF cal.ret THEN 1 ELSE 0)]]
                    /\ \E chunk_to_analyze \in {Tail_k(buffer, MIN_CHUNK_SIZE)} :
                       \E rms \in (IF due THEN FilteredRms(chunk_to_analyze) ELSE {0}) :
                       \E xa \in (IF due THEN env.extracts ELSE {NoExtract}) :
                       \E r \in {IF due
                                 THEN analyze(cal.an, chunk_to_analyze, rms, xa)
                                 ELSE [result |-> silent_result, an |-> cal.an]} :
                         /\ due => ExactTick(cal.an, xa, r)
                         /\ analyzer' = r.an
                         /\ out' = [out EXCEPT ![c] =
                              (IF announce THEN <<CalibratingMsg>> ELSE <<>>)
                              \o (IF cal.ret THEN <<CalibratedMsg(cal.an)>> ELSE <<>>)
                              \o (IF due THEN <<result_to_dict(r.result)>> ELSE <<>>)]
                         /\ analysed' = [analysed EXCEPT ![c] =
                              IF due THEN chunk_to_analyze ELSE <<>>]
                         /\ lastTick' = [d \in Conns |->
                              IF d = c /\ due
                              THEN [an |-> cal.an, audio_data |-> chunk_to_analyze,
                                    rms |-> rms, x |-> xa, result |-> r.result]
                              ELSE NoTick]

\* the branch "text" in data
ReceiveText(c, text) ==
    /\ st[c] = "open"
    /\ text \in env.texts[c]
    /\ LET type == MsgType(text)
       IN  CASE type = "raise" -> Closed(c)
             [] type = "ping" ->
                  /\ out' = [out EXCEPT ![c] = <<PongMsg>>]
                  /\ analysed' = [analysed EXCEPT ![c] = <<>>]
                  /\ lastTick' = [d \in Conns |-> NoTick]
                  /\ UNCHANGED <<analyzer, st, audio_buffer, samples_since_last_process,
                                 calibrating, calibration_started, statusCount, ticks, env>>
             [] type = "reset" ->
                  /\ audio_buffer' = [audio_buffer EXCEPT ![c] = <<>>]
                  /\ analyzer' = reset(analyzer)
                  /\ ticks' = 0
                  /\ calibrating' = [calibrating EXCEPT ![c] = TRUE]
                  /\ calibration_started' = [calibration_started EXCEPT ![c] = FALSE]
                  /\ out' = [out EXCEPT ![c] = <<ResetAckMsg>>]
                  /\ analysed' = [analysed EXCEPT ![c] = <<>>]
                  /\ lastTick' = [d \in Conns |-> NoTick]
                  /\ statusCount' = [statusCount EXCEPT ![c] = NoCount]
                  /\ UNCHANGED <<st, samples_since_last_process, env>>
             [] type = "recalibrate" ->
                  /\ analyzer' = reset(analyzer)
                  /\ ticks' = 0
                  /\ calibrating' = [calibrating EXCEPT ![c] = TRUE]
                  /\ calibration_started' = [calibration_started EXCEPT ![c] = FALSE]
                  /\ out' = [out EXCEPT ![c] = <<RecalibratingMsg>>]
                  /\ analysed' = [analysed EXCEPT ![c] = <<>>]
                  /\ lastTick' = [d \in Conns |-> NoTick]
                  /\ statusCount' = [statusCount EXCEPT ![c] =
                                       [calibrating |-> 1, calibrated |-> 0]]
                  /\ UNCHANGED <<st, audio_buffer, samples_since_last_process, env>>
             [] OTHER ->
                  /\ out' = [out EXCEPT ![c] = <<>>]
                  /\ analysed' = [analysed EXCEPT ![c] = <<>>]
                  /\ lastTick' = [d \in Conns |-> NoTick]
                  /\ UNCHANGED <<analyzer, st, audio_buffer, samples_since_last_process,
                                 calibrating, calibration_started, statusCount, ticks, env>>

----------------------------------------------------------------------------
(* Specifications *)

\* binary payloads: nbytes bytes, every sample of value amp.  Three bytes
\* are not a whole number of int16 samples.
Malformed == [nbytes |-> 3, amp |-> 0]
Short128 == [nbytes |-> 256, amp |-> 164]
Quiet256 == [nbytes |-> 512, amp |-> 164]
Zero256 == [nbytes |-> 512, amp |-> 0]
Noisy256 == [nbytes |-> 512, amp |-> 400]
Noisy512 == [nbytes |-> 1024, amp |-> 400]
Loud1024 == [nbytes |-> 2048, amp |-> 400]
\* one frame longer than the whole rolling buffer
Huge3328 == [nbytes |-> 6656, amp |-> 400]
Frames == {Malformed, Short128, Zero256, Quiet256, Noisy256, Noisy512, Loud1024,
           Huge3328}

InitWith(e) ==
    /\ analyzer = None
    /\ st = [c \in Conns |-> "idle"]
    /\ audio_buffer = [c \in Conns |-> <<>>]
    /\ samples_since_last_process = [c \in Conns |-> 0]
    /\ calibrating = [c \in Conns |-> TRUE]
    /\ calibration_started = [c \in Conns |-> FALSE]
    /\ out = [c \in Conns |-> <<>>]
    /\ analysed = [c \in Conns |-> <<>>]
    /\ lastTick = [c \in Conns |-> NoTick]
    /\ statusCount = [c \in Conns |-> NoCount]
    /\ ticks = 0
    /\ env = e

\* one client
Init == InitWith([conns |-> {1},
                 frames |-> [c \in Conns |-> Frames \ {Zero256, Noisy256, Noisy512}],
                 texts |-> [c \in Conns |-> Texts],
                 max_ticks |-> MaxTicks,
                 extracts |-> AnalysisExtracts,
                 saturate |-> FALSE])

\* two clients at once
InitMulti == InitWith([conns |-> {1, 2},
                      frames |-> [c \in Conns |-> {Quiet256}],
                      texts |-> [c \in Conns |-> IF c = 1 THEN {} ELSE {PingText}],
                      max_ticks |-> MaxTicksMulti,
                      extracts |-> FewExtracts,
                      saturate |-> FALSE])

\* one client analysing, and a second that only connects and disconnects
InitShared == InitWith([conns |-> {1, 2},
                       frames |-> [c \in Conns |-> IF c = 1 THEN {Quiet256, Noisy256} ELSE {}],
                       texts |-> [c \in Conns |-> IF c = 1 THEN {PingText} ELSE {}],
                       max_ticks |-> MaxTicksMulti,
                       extracts |-> AnalysisExtracts,
                       saturate |-> FALSE])

\* one client calibrating on frames of two levels
InitCalib == InitWith([conns |-> {1},
                      frames |-> [c \in Conns |-> {Short128, Quiet256, Noisy512}],
                      texts |-> [c \in Conns |-> {RecalibrateText}],
                      max_ticks |-> MaxTicksMulti,
                      extracts |-> AnalysisExtracts,
                      saturate |-> FALSE])

\* one client sending silence, and a second that only connects and disconnects
InitSilence == InitWith([conns |-> {1, 2},
                        frames |-> [c \in Conns |-> IF c = 1 THEN {Zero256, Quiet256} ELSE {}],
                        texts |-> [c \in Conns |-> IF c = 1 THEN {PingText} ELSE {}],
                        max_ticks |-> MaxTicksMulti,
                        extracts |-> AnalysisExtracts,
                        saturate |-> FALSE])

\* formant pairs on, between and far from the entries of the vowel table
ClassifyExtracts ==
    { [sound_ok |-> TRUE, intensity |-> 6000, f1 |-> f1, f2 |-> f2,
       f3 |-> 2500, pitch |-> 200] :
         f1 \in {0, 280, 400, 425, 700, 1200}, f2 \in {0, 950, 1700, 2050, 2300, 4000} }

\* one client whose frames the extractor reads as those formant pairs
InitClassify == InitWith([conns |-> {1},
                         frames |-> [c \in Conns |-> {Quiet256}],
                         texts |-> [c \in Conns |-> {PingText}],
                         max_ticks |-> MaxTicksMulti,
                         extracts |-> ClassifyExtracts,
                         saturate |-> FALSE])

\* one client streaming without end in chunks of 128 or 256 samples.  The
\* counter of samples since the last tick is only ever compared with
\* PROCESS_EVERY: here it is kept at MaxPending once it has reached it, so
\* that frames can arrive for ever.
InitStream == InitWith([conns |-> {1},
                       frames |-> [c \in Conns |-> {Short128, Quiet256}],
                       texts |-> [c \in Conns |-> {PingText}],
                       max_ticks |-> MaxTicks,
                       extracts |-> AnalysisExtracts,
                       saturate |-> TRUE])

Next ==
    \E c \in Conns :
        \/ Connect(c)
        \/ Disconnect(c)
        \/ \E f \in env.frames[c] : ReceiveBytes(c, f.nbytes, f.amp)
        \/ \E text \in env.texts[c] : ReceiveText(c, text)

Spec == Init /\ [][Next]_vars

SpecMulti == InitMulti /\ [][Next]_vars

SpecShared == InitShared /\ [][Next]_vars

SpecCalib == InitCalib /\ [][Next]_vars

SpecSilence == InitSilence /\ [][Next]_vars

SpecClassify == InitClassify /\ [][Next]_vars

\* some binary frame is received
FrameArrives == \E c \in Conns : \E f \in env.frames[c] : ReceiveBytes(c, f.nbytes, f.amp)

\* the client connects, and as long as the session can take a frame one arrives
SpecStream ==
    /\ InitStream
    /\ [][Next]_vars
    /\ WF_vars(\E c \in Conns : Connect(c))
    /\ WF_vars(FrameArrives)

----------------------------------------------------------------------------
(* Properties *)

CountType(msgs, t) == Cardinality({i \in 1..Len(msgs) : msgs[i].type = t})

\* some event of connection c is handled in this step
Acts(c) ==
    \/ Connect(c)
    \/ Disconnect(c)
    \/ \E f \in env.frames[c] : ReceiveBytes(c, f.nbytes, f.amp)
    \/ \E text \in env.texts[c] : ReceiveText(c, text)

\* the samples of a, oldest first, with equal neighbours merged
RECURSIVE Merged(_)
Merged(a) == IF a = <<>> THEN <<>> ELSE Concatenate(<<Head(a)>>, Merged(Tail(a)))

\* b is the last samples of a
IsTailOf(b, a) ==
    /\ ArrayLen(b) <= ArrayLen(a)
    /\ Merged(Head_k(a, ArrayLen(a) - ArrayLen(b)) \o b) = Merged(a)

\* C1: handling "reset" sends exactly one reset_ack and nothing else, and
\* leaves the session Calibrating with the smoothing state at 0, the
\* calibration state at its defaults (noise-floor RMS 0.01, intensity 30 dB,
\* not converged, no history) and an empty sample buffer.
C1_ResetClears ==
    [][\A c \in Conns :
         ReceiveText(c, ResetText) =>
            /\ out'[c] = <<[type |-> "reset_ack"]>>
            /\ st'[c] = "open"
            /\ calibrating'[c]
            /\ analyzer'.last_f1 = 0 /\ analyzer'.last_f2 = 0
            /\ analyzer'.last_f3 = 0 /\ analyzer'.last_pitch = 0
            /\ 100 * analyzer'.noise_floor_rms = RmsUnit
            /\ analyzer'.noise_floor_intensity = 30 * DbUnit
            /\ ~analyzer'.is_calibrated
            /\ analyzer'.calibration_samples = <<>>
            /\ audio_buffer'[c] = <<>>]_vars

\* a reset has just been acknowledged on a session that had received audio
C1_Witness ==
    \E c \in Conns :
        /\ st[c] = "open"
        /\ out[c] = <<ResetAckMsg>>
        /\ samples_since_last_process[c] >= MinFrameLen
        /\ audio_buffer[c] = <<>>

\* C2: no binary frame ends the session: after handling any binary frame,
\* a malformed one included, the session loop is still running.
C2_BadFrameKeepsSession ==
    [][\A c \in Conns : \A f \in Frames :
         ReceiveBytes(c, f.nbytes, f.amp) => st'[c] = "open"]_vars

\* C3: a text frame that is not JSON, or whose type is none of ping, reset,
\* recalibrate, sends nothing, changes no session state and leaves the
\* session open.
C3_MalformedTextIgnored ==
    [][\A c \in Conns : \A text \in Texts :
         (MsgType(text) \notin {"ping", "reset", "recalibrate"} /\ ReceiveText(c, text)) =>
            /\ st'[c] = "open"
            /\ out'[c] = <<>>
            /\ UNCHANGED <<analyzer, audio_buffer, samples_since_last_process,
                           calibrating, calibration_started>>]_vars

\* C4: no event on one connection changes the calibration state or the
\* smoothing state used by another open connection.
C4_SessionsIsolated ==
    [][\A c \in Conns : \A d \in Conns \ {c} :
         (st[c] = "open" /\ Acts(d)) => analyzer' = analyzer]_vars

\* C5: every message leaves at most 0.2 * 16000 = 3200 samples in the sample
\* buffer, and a binary frame leaves in it the last samples of the old
\* buffer followed by the frame: all of them, or the last 3200.
C5_BufferBounded ==
    [][\A c \in Conns :
         /\ ArrayLen(audio_buffer'[c]) <= 3200
         /\ \A f \in Frames :
              (f.nbytes % 2 = 0 /\ ReceiveBytes(c, f.nbytes, f.amp)) =>
                 LET all == audio_buffer[c] \o FromBuffer(f.nbytes, f.amp)
                 IN  /\ ArrayLen(audio_buffer'[c]) = Min(3200, ArrayLen(all))
                     /\ IsTailOf(audio_buffer'[c], all)]_vars

\* the buffer is full, holds two different sample values, and more samples
\* than it holds have arrived since the last tick: old ones were dropped
C5_Witness ==
    \E c \in Conns :
        /\ ArrayLen(audio_buffer[c]) = 3200
        /\ Len(audio_buffer[c]) = 2
        /\ samples_since_last_process[c] > 3200

\* C6: no calibration phase sends the "calibrating" status twice.
C6_CalibratingOnce ==
    \A c \in Conns : statusCount[c].calibrating <= 1

\* C7: a session starts Calibrating; it leaves Calibrating exactly on a binary
\* frame on which calibrate_noise_floor returns True, and exactly then one
\* "calibrated" status is sent, carrying the noise floor just derived (RMS
\* rounded to 4 decimals, intensity to 1); an analysis result is sent only
\* after a "calibrated" status of the same calibration phase.
C7_CalibratedOnConvergence ==
    [][\A c \in Conns :
         /\ Connect(c) => (calibrating'[c] /\ out'[c] = <<>>)
         /\ (st[c] = "open" /\ Acts(c)) =>
              LET left == calibrating[c] /\ ~calibrating'[c]
                  converged ==
                      \E f \in Frames :
                         /\ f.nbytes % 2 = 0
                         /\ ReceiveBytes(c, f.nbytes, f.amp)
                         /\ calibrating[c]
                         /\ f.nbytes \div 2 >= 256
                         /\ calibrate_noise_floor(analyzer, FromBuffer(f.nbytes, f.amp),
                                                  NoExtract).ret
              IN  /\ left <=> converged
                  /\ left <=> (CountType(out'[c], "calibrated") = 1)
                  /\ CountType(out'[c], "calibrated") <= 1
                  /\ left =>
                       \E i \in 1..Len(out'[c]) :
                          /\ out'[c][i].type = "calibrated"
                          /\ analyzer'.is_calibrated
                          /\ out'[c][i].rms =
                               RoundQ(analyzer'.noise_floor_rms, RmsUnit, 10000)
                          /\ out'[c][i].intensity =
                               RoundQ(analyzer'.noise_floor_intensity, DbUnit, 10)
                  /\ \A i \in 1..Len(out'[c]) :
                       out'[c][i].type = "result" =>
                          /\ ~calibrating'[c]
                          /\ statusCount'[c].calibrated = 1
                          /\ \A j \in 1..Len(out'[c]) :
                                out'[c][j].type = "calibrated" => j < i]_vars

\* calibration has just converged on a noise floor of 0.005 and 37.4 dB,
\* which are not the values the analyzer starts with
C7_Witness ==
    \E c \in Conns :
        /\ ~calibrating[c]
        /\ \E i \in 1..Len(out[c]) :
              /\ out[c][i].type = "calibrated"
              /\ out[c][i].rms = 50
              /\ out[c][i].intensity = 374

\* C8: "recalibrate" leaves the session state as "reset" would (sample buffer
\* and smoothing and calibration state cleared, phase Calibrating) and sends
\* one "calibrating" status.
C8_RecalibrateLikeReset ==
    [][\A c \in Conns :
         ReceiveText(c, RecalibrateText) =>
            /\ out'[c] = <<RecalibratingMsg>>
            /\ audio_buffer'[c] = <<>>
            /\ analyzer' = reset(analyzer)
            /\ calibrating'[c]
            /\ ~calibration_started'[c]
            /\ samples_since_last_process'[c] = samples_since_last_process[c]]_vars

\* C9: handling "ping" sends exactly one "pong" and leaves the phase, the
\* started-flag, the sample buffer, the tick counter, the calibration state
\* and the smoothing state as they were.
C9_PingChangesNothing ==
    [][\A c \in Conns :
         ReceiveText(c, PingText) =>
            /\ out'[c] = <<[type |-> "pong"]>>
            /\ st'[c] = "open"
            /\ calibrating'[c] = calibrating[c]
            /\ calibration_started'[c] = calibration_started[c]
            /\ audio_buffer'[c] = audio_buffer[c]
            /\ samples_since_last_process'[c] = samples_since_last_process[c]
            /\ analyzer' = analyzer]_vars

\* a ping has just been answered in an Active session whose smoothing state
\* is not the initial one
C9_Witness ==
    \E c \in Conns :
        /\ out[c] = <<PongMsg>>
        /\ ~calibrating[c]
        /\ analyzer.last_f1 > 0
        /\ audio_buffer[c] # <<>>

Ticked == {c \in Conns : lastTick[c] # NoTick}

\* C11: a result has isVoiced = true exactly when the RMS of the analysed
\* frame is greater than max(0.03, 2.5 * noise-floor RMS) when calibrated, 0.04
\* when not, and the extractor's intensity is greater than
\* max(40, noise-floor intensity + 10) when calibrated, 45 when not.
C11_VoicedIffBothGates ==
    \A c \in Ticked :
        LET t == lastTick[c]
            rms_gate ==
                IF t.an.is_calibrated
                THEN /\ 100 * t.rms > 3 * RmsUnit
                     /\ 10 * t.rms > 25 * t.an.noise_floor_rms
                ELSE 100 * t.rms > 4 * RmsUnit
            intensity_gate ==
                IF t.an.is_calibrated
                THEN /\ t.x.intensity > 40 * DbUnit
                     /\ t.x.intensity > t.an.noise_floor_intensity + 10 * DbUnit
                ELSE t.x.intensity > 45 * DbUnit
        IN  /\ t.result.is_voiced <=> (rms_gate /\ intensity_gate)
            /\ \E i \in 1..Len(out[c]) :
                  /\ out[c][i].type = "result"
                  /\ out[c][i].isVoiced = t.result.is_voiced

\* a voiced tick of an analyzer that is not calibrated
C11_Witness ==
    \E c \in Ticked : ~lastTick[c].an.is_calibrated /\ lastTick[c].result.is_voiced

\* C12: every tick that judges its frame unvoiced, whichever gate fails,
\* reports F1 and F2 at 0.8 times the previous smoothed F1 and F2, F3 = 0,
\* pitch = 0 and the intensity the extractor reads on the frame.
C12_UnvoicedDecays ==
    \A c \in Ticked :
        LET t == lastTick[c]
        IN  (t.x.sound_ok /\ ~t.result.is_voiced) =>
               /\ 10 * t.result.f1 = 8 * t.an.last_f1
               /\ 10 * t.result.f2 = 8 * t.an.last_f2
               /\ t.result.f3 = 0
               /\ t.result.pitch = 0
               /\ t.result.intensity = t.x.intensity

\* val is raw smoothed against previous, a previous of 0 taking raw as it is
SmoothedFromOwn(val, raw, previous) ==
    IF previous = 0 THEN val = raw
    ELSE IF raw = 0 THEN 2 * val = previous
    ELSE 10 * val = 3 * previous + 7 * raw

\* C13: on a voiced tick each of F1, F2, F3 and pitch is smoothed from its own
\* previous value: the raw value as it is when that previous value is 0, else
\* half the previous value when the raw value is 0, else
\* 0.3 * previous + 0.7 * raw.
C13_ChannelsSmoothedIndependently ==
    \A c \in Ticked :
        LET t == lastTick[c]
        IN  t.result.is_voiced =>
               /\ SmoothedFromOwn(t.result.f1, t.x.f1, t.an.last_f1)
               /\ SmoothedFromOwn(t.result.f2, t.x.f2, t.an.last_f2)
               /\ SmoothedFromOwn(t.result.f3, t.x.f3, t.an.last_f3)
               /\ SmoothedFromOwn(t.result.pitch, t.x.pitch, t.an.last_pitch)

\* v is the entry at 0-based index idx of h sorted in ascending order
IsSortedEntry(v, h, idx) ==
    /\ \E i \in 1..Len(h) : h[i] = v
    /\ Cardinality({i \in 1..Len(h) : h[i] < v}) <= idx
    /\ Cardinality({i \in 1..Len(h) : h[i] <= v}) > idx

C15_NearestVowelFirstDeclared ==
    \A c \in Ticked :
        LET t == lastTick[c]
            f1 == t.result.f1
            f2 == t.result.f2
            D2(i) == 144 * (f1 - IPA_VOWELS[i].f1) * (f1 - IPA_VOWELS[i].f1)
                     + 64 * (f2 - IPA_VOWELS[i].f2) * (f2 - IPA_VOWELS[i].f2)
        IN  t.result.is_voiced =>
              \E m \in 1..Len(out[c]) :
                 LET msg == out[c][m]
                     k == 1000 - msg.confidence
                 IN  /\ msg.type = "result"
                     /\ msg.confidence \in 0..1000
                     /\ IF f1 = 0 \/ f2 = 0
                        THEN msg.detectedVowel = "None" /\ msg.confidence = 0
                        ELSE \E i \in 1..Len(IPA_VOWELS) :
                                /\ msg.detectedVowel = IPA_VOWELS[i].vowel
                                /\ \A j \in 1..Len(IPA_VOWELS) : D2(i) <= D2(j)
                                /\ \A j \in 1..(i - 1) : D2(j) > D2(i)
                                \* confidence = round(1000 - 2.5 d), 100 d^2 = D2(i)
                                /\ msg.confidence > 0 => D2(i) <= 4 * (2 * k + 1) * (2 * k + 1)
                                /\ k > 0 => D2(i) + 16 >= 4 * (2 * k - 1) * (2 * k - 1)
                     /\ (f1 = 280 /\ f2 = 2300) =>
                           /\ msg.detectedVowel = "close front"
                           /\ msg.confidence >= 900

\* a voiced tick on formants as far from the near-close front vowel as from
\* the close-mid front vowel, declared after it
C15_Witness ==
    \E c \in Ticked :
        /\ lastTick[c].result.is_voiced
        /\ lastTick[c].result.f1 = 400
        /\ lastTick[c].result.f2 = 2050
        /\ lastTick[c].result.detected_vowel = "near-close front"

\* C16: a tick on a frame whose samples are all zero gives isVoiced = false,
\* whatever the calibration state and whatever intensity the extractor reads.
C16_ZeroFrameUnvoiced ==
    \A c \in Ticked :
        LET t == lastTick[c]
        IN  (\A i \in 1..Len(t.audio_data) : t.audio_data[i].v = 0) =>
               /\ ~t.result.is_voiced
               /\ \E m \in 1..Len(out[c]) :
                     out[c][m].type = "result" /\ ~out[c][m].isVoiced

\* a tick on 1024 zeros with a noise floor calibrated on zeros, the extractor
\* reading 60 dB
C16_Witness ==
    \E c \in Ticked :
        /\ ArrayLen(lastTick[c].audio_data) = 1024
        /\ \A i \in 1..Len(lastTick[c].audio_data) : lastTick[c].audio_data[i].v = 0
        /\ lastTick[c].an.is_calibrated
        /\ lastTick[c].an.noise_floor_rms = 0
        /\ lastTick[c].x.intensity = 60 * DbUnit

\* C17: a binary frame received while the session is Calibrating, the frame
\* on which calibration converges included, sends no analysis result.
C17_NoResultWhileCalibrating ==
    [][\A c \in Conns : \A f \in Frames :
         (calibrating[c] /\ ReceiveBytes(c, f.nbytes, f.amp)) =>
            CountType(out'[c], "result") = 0]_vars

\* C18: after every tick the smoothing state is the F1, F2, F3 and pitch of
\* the result the tick reported.
C18_SmoothingStateIsLastResult ==
    \A c \in Ticked :
        /\ analyzer.last_f1 = lastTick[c].result.f1
        /\ analyzer.last_f2 = lastTick[c].result.f2
        /\ analyzer.last_f3 = lastTick[c].result.f3
        /\ analyzer.last_pitch = lastTick[c].result.pitch

\* C19: with an extractor whose readings are never negative, the smoothed
\* F1, F2, F3 and pitch, the noise-floor RMS and intensity and every
\* intensity sent are at least 0 and every confidence sent lies in [0, 1];
\* a result sent with isVoiced = false has no vowel, confidence 0, pitch 0
\* and F3 0.
C19_ValuesNonNegative ==
    /\ analyzer # None =>
          /\ analyzer.last_f1 >= 0 /\ analyzer.last_f2 >= 0
          /\ analyzer.last_f3 >= 0 /\ analyzer.last_pitch >= 0
          /\ analyzer.noise_floor_rms >= 0
          /\ analyzer.noise_floor_intensity >= 0
    /\ \A c \in Conns : \A i \in 1..Len(out[c]) :
          LET msg == out[c][i]
          IN  /\ msg.type = "calibrated" => (msg.rms >= 0 /\ msg.intensity >= 0)
              /\ msg.type = "result" =>
                    /\ msg.f1 >= 0 /\ msg.f2 >= 0 /\ msg.f3 >= 0 /\ msg.pitch >= 0
                    /\ msg.intensity >= 0
                    /\ msg.confidence >= 0 /\ msg.confidence <= 1000
                    /\ ~msg.isVoiced =>
                          /\ msg.detectedVowel = "None"
                          /\ msg.confidence = 0
                          /\ msg.pitch = 0
                          /\ msg.f3 = 0

\* an unvoiced result that reports decayed formants and an intensity, sent by
\* an analyzer whose noise-floor intensity is the floor of 20 dB
C19_Witness ==
    \E c \in Conns : \E i \in 1..Len(out[c]) :
        /\ out[c][i].type = "result"
        /\ ~out[c][i].isVoiced
        /\ out[c][i].f1 > 0
        /\ out[c][i].intensity > 0
        /\ analyzer.noise_floor_intensity = 20 * DbUnit

\* C20: with one connection, an Active session has a converged calibration
\* and every tick runs on a calibrated analyzer; the calibration stops being
\* converged only on reset or recalibrate, which leave the session Calibrating.
C20_ActiveIsCalibrated ==
    [][/\ \A c \in Conns :
            /\ (st'[c] = "open" /\ ~calibrating'[c]) => analyzer'.is_calibrated
            /\ lastTick'[c] # NoTick => lastTick'[c].an.is_calibrated
       /\ (analyzer # None /\ analyzer.is_calibrated /\ ~analyzer'.is_calibrated) =>
             \E c \in Conns :
                /\ calibrating'[c]
                /\ ReceiveText(c, ResetText) \/ ReceiveText(c, RecalibrateText)]_vars

\* a voiced tick in an Active session that has been recalibrated
C20_Witness ==
    \E c \in Ticked :
        /\ ~calibrating[c]
        /\ lastTick[c].an.is_calibrated
        /\ lastTick[c].result.is_voiced
        /\ statusCount[c].calibrating = 2

\* C21: whatever the sizes of the binary frames that keep arriving, chunks
\* shorter than 256 samples included, a session that is not reset or
\* recalibrated (and not ended) comes to be Active and to have sent an analysis
\* result (ticks counts the results sent since the session began: no other
\* client connects and no reset or recalibrate is sent).
C21_EventuallyActive ==
    \A c \in Conns :
        (st[c] = "open") ~>
            \/ st[c] # "open"
            \/ ~calibrating[c] /\ ticks >= 1

====
